---- MODULE Spec2Model ----
(***************************************************************************)
(* ZMap shard.c: partition of a cyclic group <g> of Z_p^* into subshards   *)
(* and the per-step iteration of one subshard.                             *)
(*                                                                         *)
(* A configuration (cycle, zsend/zconf bounds, the arguments of every      *)
(* shard_init call) is chosen in the initial state; each shard instance    *)
(* is then constructed by shard_init and driven by shard_get_cur_target    *)
(* and shard_get_next_target, the instances interleaving freely.  The      *)
(* while(1) loop of shard_get_next_target is modelled one iteration per    *)
(* step (pc = "loop"), so that its termination is a property of the        *)
(* behaviours and not of the model.                                        *)
(*                                                                         *)
(*   Spec      one instance per subshard id of a valid partition, driven   *)
(*             as the send loop drives it (one read of the current target, *)
(*             then advances until DONE)                                   *)
(*   SpecOne   a single shard_init call with arbitrary arguments, valid    *)
(*             or not, and a driver that also re-reads the current target  *)
(*             and keeps calling after DONE                                *)
(*   FairSpec  a single shard_init call under weak fairness of the         *)
(*             worker's steps                                              *)
(*   SpecScenario  prime 23, one shard of two threads, bits_for_port = 2   *)
(*   SpecTwin  two shards built from the same arguments in different       *)
(*             memory                                                      *)
(*   SpecWide  one call of extract_ip / extract_port or of                 *)
(*             shard_get_next_elem on uint64_t values                      *)
(*                                                                         *)
(* The state-machine part works on naturals below 2^15, where the 64-bit   *)
(* fields of the source do not wrap.  The fixed-width behaviour of the     *)
(* arithmetic (uint64_t product, uint32_t / uint16_t truncation) is        *)
(* modelled on 8-byte values (SpecWide).                                   *)
(***************************************************************************)
EXTENDS Integers, Sequences, FiniteSets, TLC

VARIABLES
    cycle,   \* cycle_t: [prime, generator, order, offset]
    env,     \* zsend.max_ip_index, zsend.max_target_index, zconf.ports->port_count
    args,    \* args[k]: the arguments of the k-th shard_init call
    sh,      \* sh[k]: the shard_t of instance k
    pc,      \* pc[k]: "new" | "aborted" | "ready" | "idle" | "loop"
    caller,  \* caller[k]: who runs the loop of shard_get_next_target: "init" | "driver"
    ret,     \* ret[k]: the target returned by the last call on instance k
    gh,      \* gh[k]: history of instance k (not program state)
    lim,     \* [reads, extra]: re-reads per advance and calls after DONE the driver makes
    probe    \* inputs and results of the fixed-width arithmetic checks

vars == <<cycle, env, args, sh, pc, caller, ret, gh, lim, probe>>

-----------------------------------------------------------------------------
(* Bounds of the model *)

MaxPrime == 7
MaxGen == 3
MaxShards == 2
MaxThreads == 2
MaxBits == 1
MaxIp == 3
MaxPorts == 2
MaxReads == 2
MaxQuota == 9
MaxExtraCalls == 1

-----------------------------------------------------------------------------
(* Constants of the program *)

ZMAP_SHARD_DONE == 0
ZMAP_SHARD_OK == 1

NoTarget == [ip |-> 0, port |-> 0, status |-> 2, op |-> "none"]

-----------------------------------------------------------------------------
(* Collaborators *)

\* blocklist_lookup_index: the ip_index-th allowed address (10.0.0.0 + index).
blocklist_lookup_index(ip) == 167772160 + ip

\* zconf.ports->ports[port]
ports(port) == 80 + 7 * port

RECURSIVE ModExp(_, _, _)
\* mpz_powm(rop, base, exp, mod)
ModExp(base, exp, mod) ==
    IF exp = 0 THEN 1 % mod ELSE (base * ModExp(base, exp - 1, mod)) % mod

\* Multiplicative order of g modulo p (cycle->order as the cyclic-group
\* collaborator computes it).
MultOrder(g, p) == CHOOSE n \in 1..(p - 1) :
    /\ ModExp(g, n, p) = 1
    /\ \A m \in 1..(n - 1) : ModExp(g, m, p) # 1

IsPrime(n) == n > 1 /\ \A d \in 2..(n - 1) : n % d # 0

-----------------------------------------------------------------------------
(* Target decoding *)

\* uint64_t mask = (1 << bits) - 1; return (uint16_t)(v & mask);
extract_port(v, bits) == (v % (2 ^ bits)) % 65536

\* return (uint32_t)(v >> bits);   (v < 2^31 here, the cast keeps it)
extract_ip(v, bits) == v \div (2 ^ bits)

\* Mutant: shard_roll_to_valid tests the address index only.
roll_is_valid_noport(s, e) ==
    LET current_ip_index == (s.current - 1) \div (2 ^ s.bits_for_port)
    IN  current_ip_index < e.max_ip_index

\* The test of shard_roll_to_valid on s->current.
roll_is_valid(s, e) ==
    LET current_ip_index == (s.current - 1) \div (2 ^ s.bits_for_port)
        candidate_port == extract_port(s.current - 1, s.bits_for_port)
    IN  current_ip_index < e.max_ip_index /\ candidate_port < e.port_count

\* Mutant: the cursor is decoded as it is, not minus one.
shard_get_cur_target_nominus(s) ==
    IF s.current = ZMAP_SHARD_DONE
    THEN [ip |-> 0, port |-> 0, status |-> ZMAP_SHARD_DONE]
    ELSE LET ip == extract_ip(s.current, s.bits_for_port)
             port == extract_port(s.current, s.bits_for_port)
         IN  [ip |-> blocklist_lookup_index(ip), port |-> ports(port) % 65536,
              status |-> ZMAP_SHARD_OK]

\* shard_get_cur_target
shard_get_cur_target(s) ==
    IF s.current = ZMAP_SHARD_DONE
    THEN [ip |-> 0, port |-> 0, status |-> ZMAP_SHARD_DONE]
    ELSE LET ip == extract_ip(s.current - 1, s.bits_for_port)
             port == extract_port(s.current - 1, s.bits_for_port)
         IN  [ip |-> blocklist_lookup_index(ip), port |-> ports(port) % 65536,
              status |-> ZMAP_SHARD_OK]

\* shard_get_next_elem: current *= factor; current %= modulus.
shard_get_next_elem(current, factor, modulus) == (current * factor) % modulus

-----------------------------------------------------------------------------
(* shard_init *)

num_subshards_of(a) == a.num_shards * a.num_threads

\* Mutant: the subshard id without the thread index.
sub_idx_nothread(a) == a.shard_idx * a.num_threads

sub_idx_of(a) == a.shard_idx * a.num_threads + a.thread_idx

\* Mutant: the assertion num_subshards < num_elts is missing.
init_asserts_noorder(a, c) ==
    /\ a.num_shards > 0
    /\ a.num_threads > 0
    /\ a.shard_idx < a.num_shards
    /\ a.thread_idx < a.num_threads
    /\ (a.max_total_targets = 0 \/ num_subshards_of(a) <= a.max_total_targets)

\* The six assertions at the head of shard_init.
init_asserts(a, c) ==
    /\ a.num_shards > 0
    /\ a.num_threads > 0
    /\ a.shard_idx < a.num_shards
    /\ a.thread_idx < a.num_threads
    /\ num_subshards_of(a) < c.order
    /\ (a.max_total_targets = 0 \/ num_subshards_of(a) <= a.max_total_targets)

\* Mutant: the starting exponent is not shifted by the offset.
exponent_begin_nooffset(a, c) ==
    ((c.order \div num_subshards_of(a)) * sub_idx_of(a)) % c.order

exponent_begin_of(a, c) ==
    (((c.order \div num_subshards_of(a)) * sub_idx_of(a)) + c.offset) % c.order

\* Mutant: the stopping exponent without the wrap of the last subshard.
exponent_end_nowrap(a, c) ==
    (((c.order \div num_subshards_of(a)) * (sub_idx_of(a) + 1)) + c.offset) % c.order

exponent_end_of(a, c) ==
    (((c.order \div num_subshards_of(a))
        * ((sub_idx_of(a) + 1) % num_subshards_of(a))) + c.offset) % c.order

\* Mutant: the remainder goes to the subshard ids up to and including M mod S.
max_targets_inclusive(a, old) ==
    IF a.max_total_targets > 0
    THEN (a.max_total_targets \div num_subshards_of(a))
         + (IF sub_idx_of(a) <= a.max_total_targets % num_subshards_of(a)
            THEN 1 ELSE 0)
    ELSE old

\* max_targets as shard_init leaves it: set only when max_total_targets > 0.
max_targets_of(a, old) ==
    IF a.max_total_targets > 0
    THEN (a.max_total_targets \div num_subshards_of(a))
         + (IF sub_idx_of(a) < a.max_total_targets % num_subshards_of(a)
            THEN 1 ELSE 0)
    ELSE old

\* Mutant: params.last is not assigned (it keeps what the memory held).
shard_init_fields_nolast(old, a, c) ==
    LET first == ModExp(c.generator, exponent_begin_of(a, c), c.prime)
    IN  [first |-> first, last |-> old.last,
         factor |-> c.generator, modulus |-> c.prime,
         bits_for_port |-> a.bits_for_port,
         current |-> first,
         thread_id |-> a.thread_idx,
         iterations |-> old.iterations,
         max_targets |-> max_targets_of(a, old.max_targets)]

\* Mutant: current is left as the caller's memory has it.
shard_init_fields_nocurrent(old, a, c) ==
    LET first == ModExp(c.generator, exponent_begin_of(a, c), c.prime)
        last == ModExp(c.generator, exponent_end_of(a, c), c.prime)
    IN  [first |-> first, last |-> last,
         factor |-> c.generator, modulus |-> c.prime,
         bits_for_port |-> a.bits_for_port,
         current |-> old.current,
         thread_id |-> a.thread_idx,
         iterations |-> old.iterations,
         max_targets |-> max_targets_of(a, old.max_targets)]

\* The shard as shard_init has filled it in when it calls shard_roll_to_valid.
\* `old` is the memory the caller handed in: iterations is never assigned.
shard_init_fields(old, a, c) ==
    LET first == ModExp(c.generator, exponent_begin_of(a, c), c.prime)
        last == ModExp(c.generator, exponent_end_of(a, c), c.prime)
    IN  [first |-> first, last |-> last,
         factor |-> c.generator, modulus |-> c.prime,
         bits_for_port |-> a.bits_for_port,
         current |-> first,
         thread_id |-> a.thread_idx,
         iterations |-> old.iterations,
         max_targets |-> max_targets_of(a, old.max_targets)]

-----------------------------------------------------------------------------
(* One iteration of the while(1) loop of shard_get_next_target *)

\* Mutant: the bound test lets candidate = max_target_index through.
loop_iteration_offbyone(s, e) ==
    LET candidate == shard_get_next_elem(s.current, s.factor, s.modulus)
        s1 == [s EXCEPT !.current = candidate]
    IN  IF candidate = s.last
        THEN [shard |-> [s1 EXCEPT !.current = ZMAP_SHARD_DONE,
                                   !.iterations = @ + 1],
              returns |-> TRUE,
              target |-> [ip |-> 0, port |-> 0, status |-> ZMAP_SHARD_DONE]]
        ELSE IF candidate > e.max_target_index
        THEN [shard |-> s1, returns |-> FALSE, target |-> NoTarget]
        ELSE LET candidate_ip == extract_ip(candidate - 1, s.bits_for_port)
                 candidate_port == extract_port(candidate - 1, s.bits_for_port)
             IN  IF candidate_ip < e.max_ip_index /\ candidate_port < e.port_count
                 THEN [shard |-> [s1 EXCEPT !.iterations = @ + 1],
                       returns |-> TRUE,
                       target |-> [ip |-> blocklist_lookup_index(candidate_ip),
                                   port |-> ports(candidate_port),
                                   status |-> ZMAP_SHARD_OK]]
                 ELSE [shard |-> s1, returns |-> FALSE, target |-> NoTarget]

\* Mutant: the loop ends the shard when iterations has reached max_targets.
loop_iteration_quota(s, e) ==
    LET candidate == shard_get_next_elem(s.current, s.factor, s.modulus)
        s1 == [s EXCEPT !.current = candidate]
    IN  IF candidate = s.last \/ s.iterations >= s.max_targets
        THEN [shard |-> [s1 EXCEPT !.current = ZMAP_SHARD_DONE,
                                   !.iterations = @ + 1],
              returns |-> TRUE,
              target |-> [ip |-> 0, port |-> 0, status |-> ZMAP_SHARD_DONE]]
        ELSE IF candidate >= e.max_target_index
        THEN [shard |-> s1, returns |-> FALSE, target |-> NoTarget]
        ELSE LET candidate_ip == extract_ip(candidate - 1, s.bits_for_port)
                 candidate_port == extract_port(candidate - 1, s.bits_for_port)
             IN  IF candidate_ip < e.max_ip_index /\ candidate_port < e.port_count
                 THEN [shard |-> [s1 EXCEPT !.iterations = @ + 1],
                       returns |-> TRUE,
                       target |-> [ip |-> blocklist_lookup_index(candidate_ip),
                                   port |-> ports(candidate_port),
                                   status |-> ZMAP_SHARD_OK]]
                 ELSE [shard |-> s1, returns |-> FALSE, target |-> NoTarget]

\* Mutant: a skipped candidate is counted too.
loop_iteration_countskips(s, e) ==
    LET candidate == shard_get_next_elem(s.current, s.factor, s.modulus)
        s1 == [s EXCEPT !.current = candidate, !.iterations = @ + 1]
    IN  IF candidate = s.last
        THEN [shard |-> [s1 EXCEPT !.current = ZMAP_SHARD_DONE],
              returns |-> TRUE,
              target |-> [ip |-> 0, port |-> 0, status |-> ZMAP_SHARD_DONE]]
        ELSE IF candidate >= e.max_target_index
        THEN [shard |-> s1, returns |-> FALSE, target |-> NoTarget]
        ELSE LET candidate_ip == extract_ip(candidate - 1, s.bits_for_port)
                 candidate_port == extract_port(candidate - 1, s.bits_for_port)
             IN  IF candidate_ip < e.max_ip_index /\ candidate_port < e.port_count
                 THEN [shard |-> s1,
                       returns |-> TRUE,
                       target |-> [ip |-> blocklist_lookup_index(candidate_ip),
                                   port |-> ports(candidate_port),
                                   status |-> ZMAP_SHARD_OK]]
                 ELSE [shard |-> s1, returns |-> FALSE, target |-> NoTarget]

\* Mutant: the port index is not tested.
loop_iteration_noport(s, e) ==
    LET candidate == shard_get_next_elem(s.current, s.factor, s.modulus)
        s1 == [s EXCEPT !.current = candidate]
    IN  IF candidate = s.last
        THEN [shard |-> [s1 EXCEPT !.current = ZMAP_SHARD_DONE,
                                   !.iterations = @ + 1],
              returns |-> TRUE,
              target |-> [ip |-> 0, port |-> 0, status |-> ZMAP_SHARD_DONE]]
        ELSE IF candidate >= e.max_target_index
        THEN [shard |-> s1, returns |-> FALSE, target |-> NoTarget]
        ELSE LET candidate_ip == extract_ip(candidate - 1, s.bits_for_port)
                 candidate_port == extract_port(candidate - 1, s.bits_for_port)
             IN  IF candidate_ip < e.max_ip_index
                 THEN [shard |-> [s1 EXCEPT !.iterations = @ + 1],
                       returns |-> TRUE,
                       target |-> [ip |-> blocklist_lookup_index(candidate_ip),
                                   port |-> ports(candidate_port),
                                   status |-> ZMAP_SHARD_OK]]
                 ELSE [shard |-> s1, returns |-> FALSE, target |-> NoTarget]

\* Result of one iteration on shard s: the shard afterwards, whether the
\* function returns, and the target it returns.
loop_iteration(s, e) ==
    LET candidate == shard_get_next_elem(s.current, s.factor, s.modulus)
        s1 == [s EXCEPT !.current = candidate]
    IN  IF candidate = s.last
        THEN [shard |-> [s1 EXCEPT !.current = ZMAP_SHARD_DONE,
                                   !.iterations = @ + 1],
              returns |-> TRUE,
              target |-> [ip |-> 0, port |-> 0, status |-> ZMAP_SHARD_DONE]]
        ELSE IF candidate >= e.max_target_index
        THEN [shard |-> s1, returns |-> FALSE, target |-> NoTarget]
        ELSE LET candidate_ip == extract_ip(candidate - 1, s.bits_for_port)
                 candidate_port == extract_port(candidate - 1, s.bits_for_port)
             IN  IF candidate_ip < e.max_ip_index /\ candidate_port < e.port_count
                 THEN [shard |-> [s1 EXCEPT !.iterations = @ + 1],
                       returns |-> TRUE,
                       target |-> [ip |-> blocklist_lookup_index(candidate_ip),
                                   port |-> ports(candidate_port),
                                   status |-> ZMAP_SHARD_OK]]
                 ELSE [shard |-> s1, returns |-> FALSE, target |-> NoTarget]

-----------------------------------------------------------------------------
(* History kept beside each instance *)

\* raw:     the set of sequence values the shard has sat on or passed to the
\*          bound filter (first, then every candidate other than last)
\* log:     what the first read of the current target and every call of
\*          shard_get_next_target returned, in order
\* ncalls:  calls of shard_get_next_target begun by the driver
\* extra:   calls of shard_get_next_target begun after DONE was returned
\* doneret: a driver call has returned DONE
\* iter0:   iterations when the last call of shard_get_next_target began
\* reads:   reads of the current target since the last advance
NewHistory ==
    [raw |-> {}, log |-> <<>>, ncalls |-> 0, extra |-> 0,
     doneret |-> FALSE, iter0 |-> 0, reads |-> 0]

Inst == DOMAIN args

Returned(t, op) == [ip |-> t.ip, port |-> t.port, status |-> t.status, op |-> op]

-----------------------------------------------------------------------------
(* Actions *)

\* shard_init up to the call of shard_get_next_target inside
\* shard_roll_to_valid.
ShardInitAt(k) ==
    /\ pc[k] = "new"
    /\ init_asserts(args[k], cycle)
    /\ LET s == shard_init_fields(sh[k], args[k], cycle)
       IN  /\ sh' = [sh EXCEPT ![k] = s]
           /\ gh' = [gh EXCEPT ![k].raw = {s.first}]
           /\ pc' = [pc EXCEPT ![k] =
                        IF roll_is_valid(s, env) THEN "ready" ELSE "loop"]
    /\ caller' = [caller EXCEPT ![k] = "init"]
    /\ UNCHANGED <<cycle, env, args, ret, lim, probe>>

\* shard_init with an assertion that fails: abort(), no shard is produced.
ShardInitAbortAt(k) ==
    /\ pc[k] = "new"
    /\ ~init_asserts(args[k], cycle)
    /\ pc' = [pc EXCEPT ![k] = "aborted"]
    /\ UNCHANGED <<cycle, env, args, sh, caller, ret, gh, lim, probe>>

\* The driver reads the current target. The read that follows shard_init is
\* the one whose target the driver probes.
CurTargetAt(k) ==
    /\ pc[k] \in {"ready", "idle"}
    /\ pc[k] = "idle" => gh[k].reads < lim.reads
    /\ LET t == shard_get_cur_target(sh[k])
       IN  /\ ret' = [ret EXCEPT ![k] = Returned(t, "cur")]
           /\ gh' = [gh EXCEPT
                ![k].log = IF pc[k] = "ready" THEN Append(@, Returned(t, "cur")) ELSE @,
                ![k].reads = IF pc[k] = "ready" THEN 0 ELSE @ + 1]
    /\ pc' = [pc EXCEPT ![k] = "idle"]
    /\ UNCHANGED <<cycle, env, args, sh, caller, lim, probe>>

\* Mutant: shard_get_next_target without the DONE test at its head.
NextTargetAt_nohead(k) ==
    /\ pc[k] = "idle"
    /\ gh[k].doneret => gh[k].extra < lim.extra
    /\ pc' = [pc EXCEPT ![k] = "loop"]
    /\ caller' = [caller EXCEPT ![k] = "driver"]
    /\ gh' = [gh EXCEPT ![k] =
                [gh[k] EXCEPT !.ncalls = @ + 1,
                              !.extra = IF gh[k].doneret THEN @ + 1 ELSE @,
                              !.reads = 0,
                              !.iter0 = sh[k].iterations]]
    /\ UNCHANGED <<cycle, env, args, sh, ret, lim, probe>>

\* The driver calls shard_get_next_target: the DONE test at its head.
NextTargetAt(k) ==
    /\ pc[k] = "idle"
    /\ gh[k].doneret => gh[k].extra < lim.extra
    /\ LET h == [gh[k] EXCEPT !.ncalls = @ + 1,
                              !.extra = IF gh[k].doneret THEN @ + 1 ELSE @,
                              !.reads = 0,
                              !.iter0 = sh[k].iterations]
           done == [ip |-> 0, port |-> 0, status |-> ZMAP_SHARD_DONE]
       IN  IF sh[k].current = ZMAP_SHARD_DONE
           THEN /\ ret' = [ret EXCEPT ![k] = Returned(done, "next")]
                /\ gh' = [gh EXCEPT ![k] =
                            [h EXCEPT !.doneret = TRUE,
                                      !.log = Append(@, Returned(done, "next"))]]
                /\ UNCHANGED <<pc, caller>>
           ELSE /\ pc' = [pc EXCEPT ![k] = "loop"]
                /\ caller' = [caller EXCEPT ![k] = "driver"]
                /\ gh' = [gh EXCEPT ![k] = h]
                /\ UNCHANGED ret
    /\ UNCHANGED <<cycle, env, args, sh, lim, probe>>

\* Mutant: a shard that reaches DONE marks every shard DONE (a shared flag).
LoopStepAt_shared(k) ==
    /\ pc[k] = "loop"
    /\ LET r == loop_iteration(sh[k], env)
           h == [gh[k] EXCEPT
                    !.raw = IF r.shard.current = ZMAP_SHARD_DONE
                            THEN @ ELSE @ \cup {r.shard.current}]
       IN  /\ sh' = [j \in Inst |->
                      IF j = k THEN r.shard
                      ELSE IF r.shard.current = ZMAP_SHARD_DONE
                      THEN [sh[j] EXCEPT !.current = ZMAP_SHARD_DONE]
                      ELSE sh[j]]
           /\ IF ~r.returns
              THEN /\ gh' = [gh EXCEPT ![k] = h]
                   /\ UNCHANGED <<pc, ret>>
              ELSE IF caller[k] = "init"
              THEN /\ gh' = [gh EXCEPT ![k] = h]
                   /\ pc' = [pc EXCEPT ![k] = "ready"]
                   /\ UNCHANGED ret
              ELSE /\ gh' = [gh EXCEPT ![k] =
                        [h EXCEPT !.log = Append(@, Returned(r.target, "next")),
                                  !.doneret = r.target.status = ZMAP_SHARD_DONE]]
                   /\ pc' = [pc EXCEPT ![k] = "idle"]
                   /\ ret' = [ret EXCEPT ![k] = Returned(r.target, "next")]
    /\ UNCHANGED <<cycle, env, args, caller, lim, probe>>

\* One iteration of the loop, for shard_roll_to_valid or for the driver.
LoopStepAt(k) ==
    /\ pc[k] = "loop"
    /\ LET r == loop_iteration(sh[k], env)
           h == [gh[k] EXCEPT
                    !.raw = IF r.shard.current = ZMAP_SHARD_DONE
                            THEN @ ELSE @ \cup {r.shard.current}]
       IN  /\ sh' = [sh EXCEPT ![k] = r.shard]
           /\ IF ~r.returns
              THEN /\ gh' = [gh EXCEPT ![k] = h]
                   /\ UNCHANGED <<pc, ret>>
              ELSE IF caller[k] = "init"
              THEN /\ gh' = [gh EXCEPT ![k] = h]
                   /\ pc' = [pc EXCEPT ![k] = "ready"]
                   /\ UNCHANGED ret
              ELSE /\ gh' = [gh EXCEPT ![k] =
                        [h EXCEPT !.log = Append(@, Returned(r.target, "next")),
                                  !.doneret = r.target.status = ZMAP_SHARD_DONE]]
                   /\ pc' = [pc EXCEPT ![k] = "idle"]
                   /\ ret' = [ret EXCEPT ![k] = Returned(r.target, "next")]
    /\ UNCHANGED <<cycle, env, args, caller, lim, probe>>

ShardInit == \E k \in Inst : ShardInitAt(k)

ShardInitAbort == \E k \in Inst : ShardInitAbortAt(k)

CurTarget == \E k \in Inst : CurTargetAt(k)

NextTarget == \E k \in Inst : NextTargetAt(k)

LoopStep == \E k \in Inst : LoopStepAt(k)

Next == ShardInit \/ ShardInitAbort \/ CurTarget \/ NextTarget \/ LoopStep

-----------------------------------------------------------------------------
(* Initial states *)

Primes == {p \in 3..MaxPrime : IsPrime(p)}

Min(a, b) == IF a < b THEN a ELSE b

\* Cycles as the cyclic-group collaborator hands them over: a prime, an
\* element g of Z_p^*, the multiplicative order of g, an offset below it.
Cycles ==
    UNION {UNION {{[prime |-> p, generator |-> g, order |-> MultOrder(g, p),
                    offset |-> k] : k \in 0..(MultOrder(g, p) - 1)} :
                  g \in 2..Min(p - 1, MaxGen)} :
           p \in Primes}

\* zsend / zconf as the send and port collaborators set them.
EnvsOf(c) ==
    [max_ip_index : {0, MaxIp - 1, MaxIp},
     port_count : {MaxPorts - 1, MaxPorts},
     max_target_index : {c.prime - 2, c.prime - 1, c.prime}]

\* The bounds that filter least: every decodable pair of the bounded model is
\* eligible and no sequence value of the group is above max_target_index.
WideEnv(c) ==
    [max_ip_index |-> MaxIp, port_count |-> MaxPorts, max_target_index |-> c.prime]

\* Memory of a shard_t before shard_init.
ShardMem(m) ==
    [first |-> m, last |-> m, factor |-> m, modulus |-> m, bits_for_port |-> m,
     current |-> m, thread_id |-> m, iterations |-> m, max_targets |-> m]

ArgsOf(ns, nt, i, mtt, b) ==
    [shard_idx |-> i \div nt, num_shards |-> ns, thread_idx |-> i % nt,
     num_threads |-> nt, max_total_targets |-> mtt, bits_for_port |-> b]

InitRest(n) ==
    /\ pc = [k \in 0..(n - 1) |-> "new"]
    /\ caller = [k \in 0..(n - 1) |-> "init"]
    /\ ret = [k \in 0..(n - 1) |-> NoTarget]
    /\ gh = [k \in 0..(n - 1) |-> NewHistory]
    /\ probe = 0

\* One instance per subshard id of a partition, driven as the send loop drives
\* it. The quota is swept where the bounds filter least; a quota below the
\* number of subshards makes every shard_init of the run abort.
Init ==
    /\ cycle \in Cycles
    /\ env \in EnvsOf(cycle)
    /\ lim = [reads |-> 0, extra |-> 0]
    /\ \E ns \in 1..MaxShards, nt \in 1..MaxThreads, b \in {0, MaxBits} :
       \E mtt \in 0..MaxQuota :
        /\ ns * nt < cycle.order
        /\ (ns > 1 /\ nt > 1) => env = WideEnv(cycle)
        /\ (mtt # 0 /\ mtt # ns * nt + 1) => env = WideEnv(cycle) /\ cycle.offset = 0
        /\ args = [k \in 0..(ns * nt - 1) |-> ArgsOf(ns, nt, k, mtt, b)]
        /\ sh = [k \in 0..(ns * nt - 1) |-> ShardMem(0)]
        /\ InitRest(ns * nt)

Spec == Init /\ [][Next]_vars

\* A single shard_init call with any arguments, on any memory, and a driver
\* that re-reads the current target and calls again after DONE.
InitOne ==
    /\ cycle \in Cycles
    /\ env \in EnvsOf(cycle)
    /\ lim = [reads |-> MaxReads, extra |-> MaxExtraCalls]
    /\ args \in [{0} -> [shard_idx : 0..MaxShards, num_shards : 0..MaxShards,
                         thread_idx : 0..MaxThreads, num_threads : 0..MaxThreads,
                         max_total_targets : {0, 1, MaxShards + 1},
                         bits_for_port : {0, MaxBits}]]
    /\ sh \in {[k \in {0} |-> ShardMem(m)] : m \in {0, 3}}
    /\ ~init_asserts(args[0], cycle) => env = WideEnv(cycle) /\ sh[0] = ShardMem(0)
    /\ InitRest(1)

SpecOne == InitOne /\ [][Next]_vars

\* The scenario of the design document: prime 23, offset 0, one shard of two
\* threads, bits_for_port = 2; with generator 2 and order 23 as the document
\* has it, and with the primitive root 5 and its order 22. A quota of 1 is
\* below the two subshards and makes shard_init abort.
ScenarioAsWritten == [prime |-> 23, generator |-> 2, order |-> 23, offset |-> 0]

ScenarioPrimitive == [prime |-> 23, generator |-> 5, order |-> 22, offset |-> 0]

InitScenario ==
    /\ cycle \in {ScenarioAsWritten, ScenarioPrimitive}
    /\ env \in [max_ip_index : {5, 6}, port_count : {3, 4},
                 max_target_index : {20, 23}]
    /\ lim = [reads |-> 0, extra |-> 0]
    /\ \E mtt \in {0, 1} :
        /\ mtt = 1 => env = [max_ip_index |-> 6, port_count |-> 4,
                             max_target_index |-> 23]
        /\ args = [k \in 0..1 |-> ArgsOf(1, 2, k, mtt, 2)]
    /\ sh = [k \in 0..1 |-> ShardMem(0)]
    /\ InitRest(2)

SpecScenario == InitScenario /\ [][Next]_vars

\* Every worker is a thread of its own that keeps running: a step of instance
\* k that stays possible is eventually taken.
StepOf(k) ==
    /\ k \in Inst
    /\ (ShardInitAt(k) \/ ShardInitAbortAt(k) \/ CurTargetAt(k)
            \/ NextTargetAt(k) \/ LoopStepAt(k))

Fairness == \A k \in 0..(MaxShards * MaxThreads - 1) : WF_vars(StepOf(k))

\* A single shard_init call, for any subshard of any partition (or with a
\* quota or an index that shard_init rejects), driven as the send loop does.
InitTerm ==
    /\ cycle \in Cycles
    /\ env \in EnvsOf(cycle)
    /\ lim = [reads |-> 0, extra |-> 0]
    /\ args \in [{0} -> [shard_idx : 0..MaxShards, num_shards : 1..MaxShards,
                         thread_idx : 0..(MaxThreads - 1), num_threads : 1..MaxThreads,
                         max_total_targets : {0, 1},
                         bits_for_port : {0, MaxBits}]]
    /\ sh = [k \in {0} |-> ShardMem(0)]
    /\ ~init_asserts(args[0], cycle) => env = WideEnv(cycle)
    /\ InitRest(1)

FairSpec == InitTerm /\ [][Next]_vars /\ Fairness

\* Two shards built from the same arguments (valid or rejected) under the same
\* cycle and bounds, one in zeroed memory and one in memory that holds other
\* values, each driven by its own send loop.
InitTwin ==
    /\ cycle \in Cycles
    /\ env \in EnvsOf(cycle)
    /\ lim = [reads |-> 1, extra |-> MaxExtraCalls]
    /\ \E a \in [shard_idx : 0..(MaxShards - 1), num_shards : 1..MaxShards,
                  thread_idx : 0..(MaxThreads - 1), num_threads : 1..MaxThreads,
                  max_total_targets : {0, 1},
                  bits_for_port : {0, MaxBits}] :
        /\ ~init_asserts(a, cycle) => env = WideEnv(cycle)
        /\ args = [k \in 0..1 |-> a]
    /\ sh = [k \in 0..1 |-> ShardMem(3 * k)]
    /\ InitRest(2)

SpecTwin == InitTwin /\ [][Next]_vars

-----------------------------------------------------------------------------
(* Fixed-width arithmetic: a uint64_t as its 8 bytes, the lowest first *)

W64 == 64

NumLimbs == 8

\* The tuple of the bytes F(0), ..., F(7).
Pack(F(_)) == <<F(0), F(1), F(2), F(3), F(4), F(5), F(6), F(7)>>

\* Byte i of x (0 for the lowest), and 0 outside of the 8 bytes.
Limb(x, i) == IF i >= 0 /\ i < NumLimbs THEN x[i + 1] ELSE 0

\* Bit i of x, and 0 outside of the 64 bits.
Bit(x, i) == (Limb(x, i \div 8) \div (2 ^ (i % 8))) % 2

Zero64 == Pack(LAMBDA i : 0)

Ones64 == Pack(LAMBDA i : 255)

\* The uint64_t that holds 2^a.
Pow2(a) == Pack(LAMBDA i : IF i = a \div 8 THEN 2 ^ (a % 8) ELSE 0)

\* The uint64_t that holds the natural number n < 2^31.
U64(n) == Pack(LAMBDA i : IF i < 4 THEN (n \div (256 ^ i)) % 256 ELSE 0)

RECURSIVE AddLimbs(_, _, _, _)
AddLimbs(x, y, i, c) ==
    IF i = NumLimbs THEN <<>>
    ELSE LET s == x[i + 1] + y[i + 1] + c
         IN  <<s % 256>> \o AddLimbs(x, y, i + 1, s \div 256)

\* x + y and x - y in uint64_t: the carry out of the top byte is dropped.
Add64(x, y) == AddLimbs(x, y, 0, 0)

Sub64(x, y) == AddLimbs(x, Pack(LAMBDA i : 255 - y[i + 1]), 0, 1)

Less64(x, y) ==
    \E i \in 1..NumLimbs : x[i] < y[i] /\ \A j \in (i + 1)..NumLimbs : x[j] = y[j]

\* x >> n for n < 64.
Shr64(x, n) ==
    Pack(LAMBDA i : (Limb(x, i + (n \div 8)) \div (2 ^ (n % 8)))
                    + (Limb(x, i + (n \div 8) + 1) % (2 ^ (n % 8)))
                      * (2 ^ (8 - (n % 8))))

RECURSIVE AndBits(_, _, _)
AndBits(a, b, j) ==
    IF j = 8 THEN 0
    ELSE ((a \div (2 ^ j)) % 2) * ((b \div (2 ^ j)) % 2) * (2 ^ j) + AndBits(a, b, j + 1)

\* x & y.
And64(x, y) == Pack(LAMBDA i : AndBits(x[i + 1], y[i + 1], 0))

\* The conversion of x to an unsigned type of w bits (w a multiple of 8).
Truncate(x, w) == Pack(LAMBDA i : IF 8 * i < w THEN x[i + 1] ELSE 0)

RECURSIVE ColSum(_, _, _, _)
ColSum(x, y, k, i) ==
    IF i > k THEN 0 ELSE x[i + 1] * y[k - i + 1] + ColSum(x, y, k, i + 1)

RECURSIVE MulCols(_, _, _, _)
MulCols(x, y, k, c) ==
    IF k = NumLimbs THEN <<>>
    ELSE LET s == c + ColSum(x, y, k, 0)
         IN  <<s % 256>> \o MulCols(x, y, k + 1, s \div 256)

\* x * y in uint64_t: the low 8 bytes of the product, that is the product
\* modulo 2^64.
Mul64(x, y) == MulCols(x, y, 0, 0)

\* r reduced once by m, for r < 2 * m. The remainders below are taken bit by
\* bit from the top, and every step keeps r < m.
Reduce(r, m) == IF Less64(r, m) THEN r ELSE Sub64(r, m)

RECURSIVE ModAcc(_, _, _, _)
ModAcc(x, m, i, r) ==
    IF i < 0 \/ ~Less64(r, m) THEN r
    ELSE ModAcc(x, m, i - 1, Reduce(Add64(Add64(r, r), U64(Bit(x, i))), m))

\* x % m in uint64_t, for 0 < m < 2^63 (the remainder is exact).
Mod64(x, m) == ModAcc(x, m, W64 - 1, Zero64)

RECURSIVE MulModAcc(_, _, _, _, _)
MulModAcc(x, y, m, i, r) ==
    IF i < 0 \/ ~Less64(r, m) THEN r
    ELSE LET d == Reduce(Add64(r, r), m)
         IN  MulModAcc(x, y, m, i - 1,
                       IF Bit(x, i) = 1 THEN Reduce(Add64(d, y), m) ELSE d)

\* The exact value of (x * y) mod m, for x, y < m < 2^63: no intermediate
\* value reaches 2^64.
ExactMulMod(x, y, m) == MulModAcc(x, y, m, W64 - 1, Zero64)

-----------------------------------------------------------------------------
(* extract_port, extract_ip and shard_get_next_elem on uint64_t *)

\* (1 << bits) - 1 is computed in int and converted to uint64_t. For
\* bits >= 31 the shift or the subtraction overflows int: the behaviour is
\* undefined, and builds produce INT_MAX, a shift by bits mod 32, or a shift
\* that yields 0 (and then -1, all ones).
MaskOutcomes(bits) ==
    IF bits <= 30 THEN {U64(2 ^ bits - 1)}
    ELSE {U64(2147483647), Ones64,
          IF bits % 32 = 31 THEN U64(2147483647) ELSE U64(2 ^ (bits % 32) - 1)}

\* extract_port: the set of values a build can return.
extract_port64(v, bits) == {Truncate(And64(v, mask), 16) : mask \in MaskOutcomes(bits)}

\* v >> bits on uint64_t; undefined for bits >= 64, where builds shift by
\* bits mod 64 or yield 0.
ShiftOutcomes(v, bits) ==
    IF bits < W64 THEN {Shr64(v, bits)} ELSE {Shr64(v, bits % W64), Zero64}

\* extract_ip: the set of values a build can return.
extract_ip64(v, bits) == {Truncate(s, 32) : s \in ShiftOutcomes(v, bits)}

\* The two statements of shard_get_next_elem.
next_elem_multiply(current, factor) == Mul64(current, factor)

next_elem_reduce(current, modulus) == Mod64(current, modulus)

\* A pure function under test: its inputs, its position and its results.
\* v keeps the value the function was called with.
DecodeCall(v, bits, modulus) ==
    [fn |-> "decode", pc |-> "in", v |-> v, bits |-> bits, modulus |-> modulus,
     factor |-> Zero64, current |-> Zero64, ip |-> Zero64, port |-> Zero64]

StepCall(current, factor, modulus) ==
    [fn |-> "step", pc |-> "in", v |-> current, bits |-> 0, modulus |-> modulus,
     factor |-> factor, current |-> current, ip |-> Zero64, port |-> Zero64]

\* extract_ip(candidate - 1, bits_for_port), lines 184-185.
ExtractIp ==
    /\ probe.fn = "decode" /\ probe.pc = "in"
    /\ \E r \in extract_ip64(Sub64(probe.v, U64(1)), probe.bits) :
          probe' = [probe EXCEPT !.ip = r, !.pc = "ip"]
    /\ UNCHANGED <<cycle, env, args, sh, pc, caller, ret, gh, lim>>

\* extract_port(candidate - 1, bits_for_port), lines 186-187.
ExtractPort ==
    /\ probe.fn = "decode" /\ probe.pc = "ip"
    /\ \E r \in extract_port64(Sub64(probe.v, U64(1)), probe.bits) :
          probe' = [probe EXCEPT !.port = r, !.pc = "out"]
    /\ UNCHANGED <<cycle, env, args, sh, pc, caller, ret, gh, lim>>

\* shard->current *= shard->params.factor
NextElemMultiply ==
    /\ probe.fn = "step" /\ probe.pc = "in"
    /\ probe' = [probe EXCEPT !.current = next_elem_multiply(@, probe.factor),
                              !.pc = "mul"]
    /\ UNCHANGED <<cycle, env, args, sh, pc, caller, ret, gh, lim>>

\* shard->current %= shard->params.modulus
NextElemReduce ==
    /\ probe.fn = "step" /\ probe.pc = "mul"
    /\ probe' = [probe EXCEPT !.current = next_elem_reduce(@, probe.modulus),
                              !.pc = "out"]
    /\ UNCHANGED <<cycle, env, args, sh, pc, caller, ret, gh, lim>>

NextWide == ExtractIp \/ ExtractPort \/ NextElemMultiply \/ NextElemReduce

MaxDelta == 1

WideExps == {0, 1, 8, 16, 17, 31, 32, 47, 48}

\* Sequence values and factors: 2^a + d.
WideValues == {Add64(Pow2(a), U64(d)) : a \in WideExps, d \in 0..MaxDelta}

\* Moduli of the sizes the cyclic-group collaborator supplies:
\* 2^16 + 1, 2^32 + 15, 2^48 + 21.
WideModuli ==
    {Add64(Pow2(16), U64(1)), Add64(Pow2(32), U64(15)), Add64(Pow2(48), U64(21))}

\* bits_for_port is a uint8_t.
BitWidths == {0, 1, 8, 16, 17, 30, 31, 32, 64}

\* No shard: one call of a pure function with inputs in [1, modulus).
InitWide ==
    /\ cycle = [prime |-> 3, generator |-> 2, order |-> 2, offset |-> 0]
    /\ env = WideEnv(cycle)
    /\ lim = [reads |-> 0, extra |-> 0]
    /\ args = <<>> /\ sh = <<>> /\ pc = <<>> /\ caller = <<>>
    /\ ret = <<>> /\ gh = <<>>
    /\ \E m \in WideModuli, v \in WideValues :
        /\ Less64(v, m)
        /\ \/ \E b \in BitWidths : probe = DecodeCall(v, b, m)
           \/ \E f \in WideValues : Less64(f, m) /\ probe = StepCall(v, f, m)

SpecWide == InitWide /\ [][NextWide]_vars

-----------------------------------------------------------------------------
(* Vocabulary of the properties *)

MaxInst == MaxShards * MaxThreads

Constructed(k) == pc[k] \notin {"new", "aborted"}

\* Every instance was constructed and its driver has been handed DONE.
Complete == \A k \in Inst : Constructed(k) /\ gh[k].doneret

\* bits_for_port of the run (the same in every shard_init call of a run).
RunBits == args[0].bits_for_port

\* How many times the drivers of the run were handed target t with status OK.
TimesTaken(t) ==
    Cardinality({x \in {<<k, i>> : k \in Inst, i \in 1..(cycle.prime + 1)} :
                    /\ x[2] <= Len(gh[x[1]].log)
                    /\ gh[x[1]].log[x[2]].status = ZMAP_SHARD_OK
                    /\ gh[x[1]].log[x[2]].ip = t[1]
                    /\ gh[x[1]].log[x[2]].port = t[2]})

NumTaken ==
    Cardinality({x \in {<<k, i>> : k \in Inst, i \in 1..(cycle.prime + 1)} :
                    /\ x[2] <= Len(gh[x[1]].log)
                    /\ gh[x[1]].log[x[2]].status = ZMAP_SHARD_OK})

\* The target of the pair (ip_index, port index).
TargetOf(i, j) == <<blocklist_lookup_index(i), ports(j)>>

\* The eligible pairs: [0, max_ip_index) x [0, port_count).
Eligible == (0..(env.max_ip_index - 1)) \X (0..(env.port_count - 1))

\* The sequence value that decodes to the pair (i, j).
RawOf(i, j) == i * (2 ^ RunBits) + j + 1

\* The elements of the group generated by the generator.
GroupElems == {ModExp(cycle.generator, e, cycle.prime) : e \in 0..(cycle.order - 1)}

\* The pair (i, j) is the decoding of a sequence value that the run hands out:
\* a power of the generator that is below max_target_index or is the first
\* element of a subshard.
Enumerated(i, j) ==
    /\ j < 2 ^ RunBits
    /\ RawOf(i, j) \in GroupElems
    /\ \/ RawOf(i, j) < env.max_target_index
       \/ \E k \in Inst : sh[k].first = RawOf(i, j)

-----------------------------------------------------------------------------
(* C1 *)

\* C1 (as stated): when every subshard has run to completion, every pair of
\* [0, max_ip_index) x [0, port_count) has been handed out exactly once.
\* Stated here for the runs that the collaborators' sizing allows: the order
\* is at least the number of eligible pairs, the port index fits
\* bits_for_port, and max_target_index is above every element of Z_p^*.
C1_CoverageAsStated ==
    (/\ Complete
     /\ Cardinality(Eligible) <= cycle.order
     /\ env.port_count <= 2 ^ RunBits
     /\ env.max_target_index >= cycle.prime)
    => \A q \in Eligible : TimesTaken(TargetOf(q[1], q[2])) = 1

\* C1 (amended): when every subshard has run to completion, an eligible pair
\* has been handed out exactly once if its sequence value
\* ((ip << bits_for_port) | port) + 1 is a power of the generator that is below
\* max_target_index or is the first element of a subshard, and never
\* otherwise; nothing but eligible pairs is handed out. In particular no pair
\* is handed out twice, and every eligible pair is handed out when each has
\* such a sequence value.
C1_Coverage ==
    Complete =>
        /\ \A q \in Eligible :
             TimesTaken(TargetOf(q[1], q[2])) =
                IF Enumerated(q[1], q[2]) THEN 1 ELSE 0
        /\ NumTaken = Cardinality({q \in Eligible : Enumerated(q[1], q[2])})

\* A run of four subshards over the whole of Z_7^* that has handed out all
\* six eligible pairs.
C1_Witness ==
    /\ Complete
    /\ Cardinality(Inst) = 4
    /\ Cardinality(Eligible) = 6
    /\ NumTaken = 6
    /\ \A q \in Eligible : Enumerated(q[1], q[2])

-----------------------------------------------------------------------------
(* C2 *)

\* C2: two instances of a run with distinct subshard ids (instance k of a run
\* is built with shard_idx = k div num_threads and thread_idx = k mod
\* num_threads) never produce the same sequence value: the sets of values they
\* have sat on or passed to the bound filter are disjoint at every moment.
C2_Disjoint ==
    \A a, b \in Inst : (a # b) => gh[a].raw \cap gh[b].raw = {}

\* Two threads of one shard over a group whose order the two do not divide
\* (3 elements: arcs of 1 and 2) have both run to completion.
C2_Witness ==
    /\ Complete
    /\ Cardinality(Inst) = 2
    /\ cycle.order = 3
    /\ args[0].num_threads = 2
    /\ Cardinality(gh[0].raw) = 1
    /\ Cardinality(gh[1].raw) = 2

-----------------------------------------------------------------------------
(* C3 *)

\* C3: every constructed shard is eventually handed DONE by
\* shard_get_next_target, the loop of every call (and of shard_roll_to_valid)
\* ends, and the calls made up to and including the one that returns DONE
\* are at most cycle.order.
C3_Termination ==
    /\ [](\A k \in Inst : gh[k].extra = 0 => gh[k].ncalls <= cycle.order)
    /\ \A k \in 0..(MaxInst - 1) :
         /\ [](k \in Inst /\ Constructed(k) => <>(k \in Inst /\ gh[k].doneret))
         /\ [](k \in Inst /\ pc[k] = "loop" => <>(k \in Inst /\ pc[k] # "loop"))

\* A single subshard over the six elements of Z_7^* walked all of them and
\* was handed DONE by its sixth call: the bound cycle.order is reached.
C3_Witness ==
    /\ Cardinality(Inst) = 1
    /\ cycle.order = 6
    /\ gh[0].doneret
    /\ gh[0].ncalls = cycle.order
    /\ Cardinality(gh[0].raw) = 6

-----------------------------------------------------------------------------
(* C4 *)

\* The targets instance k has been handed with status OK.
TakenBy(k) ==
    {<<gh[k].log[i].ip, gh[k].log[i].port>> :
        i \in {j \in 1..Len(gh[k].log) : gh[k].log[j].status = ZMAP_SHARD_OK}}

\* The pairs of {0..5} x {0..3} that are eligible.
ScenarioEligible ==
    {q \in (0..5) \X (0..3) : q[1] < env.max_ip_index /\ q[2] < env.port_count}

\* C4 (as stated): prime 23, generator 2, order 23: the two subshards get
\* blocks of 11 and 12 elements, together they hand out exactly the eligible
\* pairs of {0..5} x {0..3}, and no pair is handed out by both.
C4_ScenarioAsStated ==
    (cycle = ScenarioAsWritten /\ Complete) =>
        /\ {Cardinality(gh[0].raw), Cardinality(gh[1].raw)} = {11, 12}
        /\ TakenBy(0) \cup TakenBy(1)
             = {TargetOf(q[1], q[2]) : q \in ScenarioEligible}
        /\ TakenBy(0) \cap TakenBy(1) = {}

\* C4 (amended): prime 23, generator 5, order 22: the two subshards get
\* blocks of 11 elements each, together they hand out exactly once the
\* eligible pairs of {0..5} x {0..3} whose sequence value ((ip << 2) | port) + 1
\* is at most 22 and is below max_target_index or the first element of a
\* subshard, and no pair is handed out by both.
C4_Scenario ==
    (cycle = ScenarioPrimitive /\ Complete) =>
        /\ Cardinality(gh[0].raw) = 11
        /\ Cardinality(gh[1].raw) = 11
        /\ TakenBy(0) \cup TakenBy(1)
             = {TargetOf(q[1], q[2]) :
                    q \in {r \in ScenarioEligible :
                            /\ RawOf(r[1], r[2]) <= 22
                            /\ \/ RawOf(r[1], r[2]) < env.max_target_index
                               \/ RawOf(r[1], r[2]) \in {sh[0].first, sh[1].first}}}
        /\ TakenBy(0) \cap TakenBy(1) = {}
        /\ \A t \in TakenBy(0) \cup TakenBy(1) : TimesTaken(t) = 1

\* The scenario with the primitive root has run to completion with six
\* addresses and four ports eligible: 22 pairs were handed out, pair (5, 1)
\* among them.
C4_Witness ==
    /\ cycle = ScenarioPrimitive
    /\ Complete
    /\ env = [max_ip_index |-> 6, port_count |-> 4, max_target_index |-> 23]
    /\ Cardinality(TakenBy(0) \cup TakenBy(1)) = 22
    /\ TargetOf(5, 1) \in TakenBy(0) \cup TakenBy(1)
    /\ TakenBy(0) # {} /\ TakenBy(1) # {}

-----------------------------------------------------------------------------
(* C5 *)

RECURSIVE SumQuota(_)
\* The sum of max_targets over the instances 0..(n - 1).
SumQuota(n) == IF n = 0 THEN 0 ELSE sh[n - 1].max_targets + SumQuota(n - 1)

\* M and S of the run.
RunQuota == args[0].max_total_targets

RunSubshards == args[0].num_shards * args[0].num_threads

\* C5: once shard_init has built all S subshards of a run with quota M > 0,
\* their max_targets sum to M, any two differ by at most 1, and subshard i
\* holds floor(M / S) + 1 when i < M mod S and floor(M / S) otherwise.
C5_Quota ==
    ((\A k \in Inst : Constructed(k)) /\ RunQuota > 0) =>
        /\ SumQuota(Cardinality(Inst)) = RunQuota
        /\ \A a, b \in Inst : sh[a].max_targets - sh[b].max_targets \in {-1, 0, 1}
        /\ \A k \in Inst :
             sh[k].max_targets =
                IF k < RunQuota % RunSubshards
                THEN (RunQuota \div RunSubshards) + 1
                ELSE RunQuota \div RunSubshards

\* Four subshards share a quota of 9: 3, 2, 2 and 2.
C5_Witness ==
    /\ Cardinality(Inst) = 4
    /\ \A k \in Inst : Constructed(k)
    /\ RunQuota = 9
    /\ sh[0].max_targets = 3
    /\ sh[3].max_targets = 2

-----------------------------------------------------------------------------
(* C6 *)

\* The argument combinations C6 lists as fatal.
ListedFatal(a, c) ==
    \/ a.shard_idx >= a.num_shards
    \/ a.thread_idx >= a.num_threads
    \/ a.num_shards = 0
    \/ a.num_threads = 0
    \/ a.num_shards * a.num_threads >= c.order
    \/ (a.max_total_targets # 0 /\ a.max_total_targets < a.num_shards * a.num_threads)

\* C6: a shard_init call that has ended, ended in abort exactly when its
\* arguments are among the listed combinations; an aborted call has produced
\* no shard, and any other call has produced one (its parameters are set and
\* its cursor is DONE or an element of [1, prime)).
C6_Preconditions ==
    \A k \in Inst :
        /\ pc[k] = "aborted" =>
             /\ ListedFatal(args[k], cycle)
             /\ gh[k].raw = {}
             /\ sh[k] \in {ShardMem(0), ShardMem(3)}
        /\ Constructed(k) =>
             /\ ~ListedFatal(args[k], cycle)
             /\ sh[k].modulus = cycle.prime
             /\ sh[k].factor = cycle.generator
             /\ sh[k].first \in 1..(cycle.prime - 1)
             /\ sh[k].last \in 1..(cycle.prime - 1)
             /\ sh[k].current \in 0..(cycle.prime - 1)

\* shard_init has aborted on a call whose only fault is that the number of
\* subshards equals the group order.
C6_Witness ==
    /\ pc[0] = "aborted"
    /\ args[0].shard_idx < args[0].num_shards
    /\ args[0].thread_idx < args[0].num_threads
    /\ args[0].max_total_targets = 0
    /\ args[0].num_shards * args[0].num_threads = cycle.order

-----------------------------------------------------------------------------
(* C7 *)

\* (ip << b) | port = x as integers: bit i of the left side is bit i - b of
\* ip or bit i of port.
RoundTrip(ip, port, b, x) ==
    \A i \in 0..(2 * W64 - 1) :
        (IF Bit(ip, i - b) + Bit(port, i) > 0 THEN 1 ELSE 0) = Bit(x, i)

\* Decoding loses nothing when the port fits a uint16_t and the index a
\* uint32_t: for b <= 16 and (v - 1) >> b < 2^32 the round trip holds.
DecodeNarrowRoundTrip ==
    (/\ probe.fn = "decode" /\ probe.pc = "out"
     /\ probe.bits <= 16
     /\ Shr64(Shr64(Sub64(probe.v, U64(1)), probe.bits), 32) = Zero64)
    => RoundTrip(probe.ip, probe.port, probe.bits, Sub64(probe.v, U64(1)))

\* C7 as stated: for every v in [1, modulus) and every bit width b, with
\* port = extract_port(v - 1, b) and ip = extract_ip(v - 1, b),
\* (ip << b) | port equals v - 1.
C7_RoundTripAsStated ==
    (probe.fn = "decode" /\ probe.pc = "out")
    => RoundTrip(probe.ip, probe.port, probe.bits, Sub64(probe.v, U64(1)))

-----------------------------------------------------------------------------
(* C8 *)

\* The target the pair decoded from v - 1 stands for, with status OK.
DecodedTarget(v, bits) ==
    [ip |-> blocklist_lookup_index((v - 1) \div (2 ^ bits)),
     port |-> ports((v - 1) % (2 ^ bits)),
     status |-> ZMAP_SHARD_OK]

LastLogged(k) == gh[k].log[Len(gh[k].log)]

\* C8: a call of shard_get_cur_target leaves the shard as it is (current and
\* iterations included); what it returns is DONE with ip = 0 and port = 0 on a
\* shard whose current is DONE, and otherwise OK with the pair decoded from
\* current - 1; and every read made after an advance returns the target that
\* advance returned, however many reads are made.
C8_CurTarget ==
    /\ [][\A k \in Inst : CurTargetAt(k) => sh' = sh]_vars
    /\ [](\A k \in Inst :
            (pc[k] = "idle" /\ ret[k].op = "cur") =>
                /\ sh[k].current = ZMAP_SHARD_DONE =>
                     /\ ret[k].status = ZMAP_SHARD_DONE
                     /\ ret[k].ip = 0
                     /\ ret[k].port = 0
                /\ sh[k].current # ZMAP_SHARD_DONE =>
                     ret[k] = Returned(DecodedTarget(sh[k].current,
                                                     sh[k].bits_for_port), "cur")
                /\ ret[k].status = LastLogged(k).status
                /\ ret[k].ip = LastLogged(k).ip
                /\ ret[k].port = LastLogged(k).port)

\* The current target was read twice after an advance that returned OK.
C8_Witness ==
    /\ pc[0] = "idle"
    /\ ret[0].op = "cur"
    /\ ret[0].status = ZMAP_SHARD_OK
    /\ gh[0].reads = 2
    /\ gh[0].ncalls >= 1
    /\ sh[0].bits_for_port = 1

-----------------------------------------------------------------------------
(* C9 *)

\* The calls logged for instance k up to position n.
CallsOf(k, n) == [m \in 1..n |-> gh[k].log[m].op]

\* C9: two shards built by shard_init from the same cycle, indices, counts,
\* bits_for_port and bounds behave alike: shard_init rejects both or neither,
\* and at every position up to which the two drivers made the same calls the
\* two shards returned the same status, ip and port; a re-read of the current
\* target at the same position returns the same target too.
C9_Determinism ==
    /\ (pc[0] = "aborted") => (pc[1] \in {"new", "aborted"})
    /\ (pc[1] = "aborted") => (pc[0] \in {"new", "aborted"})
    /\ \A n \in 1..Min(Len(gh[0].log), Len(gh[1].log)) :
          CallsOf(0, n) = CallsOf(1, n) => gh[0].log[n] = gh[1].log[n]
    /\ (/\ pc[0] = "idle" /\ pc[1] = "idle"
        /\ Len(gh[0].log) = Len(gh[1].log)
        /\ CallsOf(0, Len(gh[0].log)) = CallsOf(1, Len(gh[1].log))
        /\ ret[0].op = ret[1].op)
       => ret[0] = ret[1]

\* Both shards were advanced to a second OK target and then re-read, while
\* the fields shard_init does not store differ between them.
C9_Witness ==
    /\ Len(gh[0].log) >= 3
    /\ Len(gh[1].log) = Len(gh[0].log)
    /\ gh[0].log[3].status = ZMAP_SHARD_OK
    /\ ret[0].op = "cur" /\ ret[1].op = "cur"
    /\ gh[0].reads = 1 /\ gh[1].reads = 1
    /\ sh[0].iterations # sh[1].iterations

-----------------------------------------------------------------------------
(* C10 *)

\* The step is exact when the product stays below 2^64, as it does for
\* current and factor below 2^32.
StepNarrowExact ==
    (/\ probe.fn = "step" /\ probe.pc = "out"
     /\ Less64(probe.v, Pow2(32)) /\ Less64(probe.factor, Pow2(32)))
    => probe.current = ExactMulMod(probe.v, probe.factor, probe.modulus)

\* C10 as stated: for every current and factor in [1, modulus) the step of
\* shard_get_next_elem sets current to the exact value of
\* (current * factor) mod modulus.
C10_ExactStepAsStated ==
    (probe.fn = "step" /\ probe.pc = "out")
    => probe.current = ExactMulMod(probe.v, probe.factor, probe.modulus)

-----------------------------------------------------------------------------
(* C11 *)

\* The elements that multiplying by factor modulo modulus yields from cur on,
\* up to and including the first occurrence of last (at most n of them).
RECURSIVE ArcFrom(_, _, _)
ArcFrom(cur, s, n) ==
    LET next == shard_get_next_elem(cur, s.factor, s.modulus)
    IN  IF next = s.last \/ n <= 1 THEN <<next>>
        ELSE <<next>> \o ArcFrom(next, s, n - 1)

ArcOf(s) == ArcFrom(s.first, s, s.modulus)

\* The elements visited before last is reached: first and all of the arc
\* but its final element.
ArcBefore(s) ==
    <<s.first>> \o SubSeq(ArcOf(s), 1, Len(ArcOf(s)) - 1)

\* floor(Q/S) for a subshard id below S - 1, the rest of the group for the
\* last subshard id.
AllottedSteps(a, c) ==
    IF sub_idx_of(a) < num_subshards_of(a) - 1
    THEN c.order \div num_subshards_of(a)
    ELSE c.order - (c.order \div num_subshards_of(a)) * (num_subshards_of(a) - 1)

\* C11: for every shard that shard_init has built, stepping from
\* params.first reaches params.last for the first time after exactly
\* floor(Q/S) steps if its subshard id is below S - 1 and after
\* Q - floor(Q/S) * (S - 1) steps if it is the last (Q steps when S = 1,
\* where first = last), and no element is visited twice before that.
C11_ArcLength ==
    \A k \in Inst :
        Constructed(k) =>
            /\ ArcOf(sh[k])[Len(ArcOf(sh[k]))] = sh[k].last
            /\ Len(ArcOf(sh[k])) = AllottedSteps(args[k], cycle)
            /\ \A i, j \in 1..Len(ArcBefore(sh[k])) :
                  i # j => ArcBefore(sh[k])[i] # ArcBefore(sh[k])[j]
            /\ (num_subshards_of(args[k]) = 1) =>
                  (sh[k].first = sh[k].last /\ Len(ArcOf(sh[k])) = cycle.order)

\* The last of four subshards over a group of order 6, with a nonzero
\* offset, was built: its arc has 3 steps, the others have 1.
C11_Witness ==
    /\ Cardinality(Inst) = 4
    /\ cycle.order = 6
    /\ cycle.offset # 0
    /\ Constructed(3) /\ Constructed(0)
    /\ Len(ArcOf(sh[3])) = 3
    /\ Len(ArcOf(sh[0])) = 1

-----------------------------------------------------------------------------
(* C12 *)

\* The candidate the next iteration of instance k computes, and the indices
\* decoded from candidate - 1.
CandidateOf(k) == shard_get_next_elem(sh[k].current, sh[k].factor, sh[k].modulus)

CandidateIp(k) == (CandidateOf(k) - 1) \div (2 ^ sh[k].bits_for_port)

CandidatePort(k) == (CandidateOf(k) - 1) % (2 ^ sh[k].bits_for_port)

\* The iteration of instance k went round again / returned OK to its caller.
Skipped(k) == pc'[k] = "loop"

ReturnedOk(k) ==
    /\ pc'[k] # "loop"
    /\ sh'[k].current = CandidateOf(k)
    /\ caller[k] = "driver" =>
          ret'[k] = Returned(DecodedTarget(CandidateOf(k), sh[k].bits_for_port), "next")

\* C12 as stated: max_target_index bounds the decoded address index as
\* max_ip_index does; a candidate other than last is skipped exactly when its
\* decoded ip_index is not below these bounds or its decoded port index is
\* >= port_count, and is returned with status OK otherwise.
C12_SkipRuleAsStated ==
    [][\A k \in Inst :
        (LoopStepAt(k) /\ CandidateOf(k) # sh[k].last) =>
            LET out == \/ CandidateIp(k) >= env.max_ip_index
                       \/ CandidateIp(k) >= env.max_target_index
                       \/ CandidatePort(k) >= env.port_count
            IN  /\ Skipped(k) <=> out
                /\ ReturnedOk(k) <=> ~out]_vars

\* C12: in shard_get_next_target a candidate other than last is skipped
\* exactly when the candidate itself (the raw sequence value, not an index
\* decoded from it) is >= max_target_index, or the ip_index decoded from
\* candidate - 1 is >= max_ip_index, or the decoded port index is
\* >= port_count; it is returned with status OK otherwise.
C12_SkipRule ==
    [][\A k \in Inst :
        (LoopStepAt(k) /\ CandidateOf(k) # sh[k].last) =>
            LET out == \/ CandidateOf(k) >= env.max_target_index
                       \/ CandidateIp(k) >= env.max_ip_index
                       \/ CandidatePort(k) >= env.port_count
            IN  /\ Skipped(k) <=> out
                /\ ReturnedOk(k) <=> ~out]_vars

\* After an advance that returned OK, the next call has skipped a candidate
\* that is >= max_target_index although the indices decoded from it are
\* within max_ip_index, max_target_index and port_count.
C12_Witness ==
    /\ pc[0] = "loop" /\ caller[0] = "driver"
    /\ ret[0].op = "next" /\ ret[0].status = ZMAP_SHARD_OK
    /\ sh[0].current >= env.max_target_index
    /\ (sh[0].current - 1) \div (2 ^ sh[0].bits_for_port) < env.max_ip_index
    /\ (sh[0].current - 1) \div (2 ^ sh[0].bits_for_port) < env.max_target_index
    /\ (sh[0].current - 1) % (2 ^ sh[0].bits_for_port) < env.port_count

-----------------------------------------------------------------------------
(* C13 *)

\* The pair decoded from v - 1 is within max_ip_index and port_count.
InBounds(v, bits) ==
    /\ (v - 1) \div (2 ^ bits) < env.max_ip_index
    /\ (v - 1) % (2 ^ bits) < env.port_count

\* Every element of the arc of instance k (first and what follows it, before
\* last) decodes to a pair that is out of bounds.
ArcAllOut(k) ==
    \A i \in 1..Len(ArcBefore(sh[k])) :
        ~InBounds(ArcBefore(sh[k])[i], sh[k].bits_for_port)

\* C13: when shard_init has returned, and after every shard_get_next_target
\* call, current is DONE or decodes (from current - 1) to ip_index <
\* max_ip_index and port index < port_count; if every element of the arc is
\* out of bounds, shard_init leaves the shard DONE and shard_get_cur_target
\* reports DONE.
C13_InBoundsCursor ==
    \A k \in Inst :
        pc[k] \in {"ready", "idle"} =>
            /\ \/ sh[k].current = ZMAP_SHARD_DONE
               \/ InBounds(sh[k].current, sh[k].bits_for_port)
            /\ ArcAllOut(k) =>
                  /\ sh[k].current = ZMAP_SHARD_DONE
                  /\ shard_get_cur_target(sh[k]).status = ZMAP_SHARD_DONE
                  /\ ret[k].op = "cur" => ret[k].status = ZMAP_SHARD_DONE

\* shard_init has rolled one shard forward from an out-of-bounds first to an
\* in-bounds cursor, and has left another, whose arc of at least two
\* elements is all out of bounds, DONE, which the read of its current target
\* reported.
C13_Witness ==
    \E a, b \in Inst :
        /\ pc[a] = "ready"
        /\ ~InBounds(sh[a].first, sh[a].bits_for_port)
        /\ sh[a].current \notin {ZMAP_SHARD_DONE, sh[a].first}
        /\ pc[b] = "idle" /\ gh[b].ncalls = 0
        /\ Len(ArcBefore(sh[b])) >= 2
        /\ ArcAllOut(b)
        /\ ret[b].op = "cur" /\ ret[b].status = ZMAP_SHARD_DONE

-----------------------------------------------------------------------------
(* C14 *)

\* The targets shard s hands out with status OK from its cursor on, by the
\* iterations of shard_get_next_target (at most n of them).
RECURSIVE EmittedFrom(_, _, _)
EmittedFrom(s, e, n) ==
    LET r == loop_iteration(s, e)
    IN  IF r.shard.current = ZMAP_SHARD_DONE \/ n <= 0 THEN {}
        ELSE (IF r.returns THEN {<<r.target.ip, r.target.port>>} ELSE {})
             \cup EmittedFrom(r.shard, e, n - 1)

\* The targets a shard built by shard_init(a, c) hands out when it is driven
\* to DONE: the current target after shard_init, if shard_roll_to_valid kept
\* first, and what the advances return.
EmittedBy(a, c, e) ==
    LET s == shard_init_fields(ShardMem(0), a, c)
    IN  (IF roll_is_valid(s, e)
         THEN {<<shard_get_cur_target(s).ip, shard_get_cur_target(s).port>>}
         ELSE {})
        \cup EmittedFrom(s, e, c.prime)

\* The union over all subshards of the run's partition, under cycle c.
EmittedUnion(c) == UNION {EmittedBy(args[k], c, env) : k \in Inst}

\* The elements of the arc of a shard built by shard_init(a, c).
ArcElems(a, c) ==
    LET s == shard_init_fields(ShardMem(0), a, c)
    IN  {ArcBefore(s)[i] : i \in 1..Len(ArcBefore(s))}

Rotated(k) == [cycle EXCEPT !.offset = k]

\* Without a max_target_index that cuts into the group, the union of the
\* emitted pairs of a completed run is the same for every offset.
RotationWithoutRawBound ==
    (Complete /\ env.max_target_index >= cycle.prime) =>
        \A k \in 0..(cycle.order - 1) :
            UNION {TakenBy(i) : i \in Inst} = EmittedUnion(Rotated(k))

\* C14 as stated: for fixed group, generator, num_shards and num_threads,
\* every offset in [0, Q) keeps the subshards' arcs pairwise disjoint and
\* gives the same union of emitted pairs as the offset of this run.
C14_RotationAsStated ==
    Complete =>
        \A k \in 0..(cycle.order - 1) :
            /\ \A a, b \in Inst :
                  a # b => ArcElems(args[a], Rotated(k))
                             \cap ArcElems(args[b], Rotated(k)) = {}
            /\ UNION {TakenBy(i) : i \in Inst} = EmittedUnion(Rotated(k))

-----------------------------------------------------------------------------
(* C15 *)

\* C15: an iteration of the loop of shard_get_next_target that skips its
\* candidate leaves iterations alone and the iteration that returns (OK or
\* DONE) adds exactly 1; so while a driver's call on a shard that is not DONE
\* is in its loop iterations is what it was when the call began, and when
\* the call returns it is 1 more, whatever the call skipped.
C15_IterationCount ==
    /\ [][\A k \in Inst :
            LoopStepAt(k) =>
                sh'[k].iterations =
                    sh[k].iterations + (IF pc'[k] = "loop" THEN 0 ELSE 1)]_vars
    /\ [](\A k \in Inst :
            (pc[k] = "loop" /\ caller[k] = "driver") =>
                sh[k].iterations = gh[k].iter0)
    /\ [][\A k \in Inst :
            (LoopStepAt(k) /\ caller[k] = "driver" /\ pc'[k] = "idle") =>
                sh'[k].iterations = gh[k].iter0 + 1]_vars

\* The first advance of a shard whose first was in bounds has returned OK
\* after skipping at least one candidate, and iterations went up by 1.
C15_Witness ==
    /\ pc[0] = "idle"
    /\ ret[0].op = "next" /\ ret[0].status = ZMAP_SHARD_OK
    /\ gh[0].ncalls = 1
    /\ gh[0].log[1].status = ZMAP_SHARD_OK
    /\ Cardinality(gh[0].raw) >= 3
    /\ sh[0].iterations = gh[0].iter0 + 1

-----------------------------------------------------------------------------
(* C16 *)

\* Where the product current * factor stays below 2^64 (the naturals of the
\* state machine), the cursor of a constructed shard is 0 or in
\* [1, modulus), and it becomes 0 only by the iteration whose candidate is
\* params.last.
CursorRangeWithoutWrap ==
    /\ [](\A k \in Inst :
            Constructed(k) =>
                \/ sh[k].current = ZMAP_SHARD_DONE
                \/ (1 <= sh[k].current /\ sh[k].current < sh[k].modulus))
    /\ [][\A k \in Inst :
            (Constructed(k) /\ sh[k].current # 0 /\ sh'[k].current = 0) =>
                (LoopStepAt(k) /\ CandidateOf(k) = sh[k].last)]_vars

\* C16 as stated, for the step: from a current in [1, modulus) the
\* multiplication step of shard_get_next_elem yields an element of
\* [1, modulus), never 0.
C16_CursorRangeAsStated ==
    (probe.fn = "step" /\ probe.pc = "out")
    => (probe.current # Zero64 /\ Less64(probe.current, probe.modulus))

-----------------------------------------------------------------------------
(* C17 *)

\* C17: a shard_get_next_target call on a shard whose current is DONE
\* returns status DONE with ip = 0 and port = 0 and changes no field of the
\* shard; a constructed shard whose current is DONE keeps current and
\* iterations for ever; and nothing a shard returns after a DONE has status
\* OK.
C17_DoneAbsorbing ==
    /\ [][\A k \in Inst :
            (NextTargetAt(k) /\ sh[k].current = ZMAP_SHARD_DONE) =>
                /\ ret'[k] = [ip |-> 0, port |-> 0,
                              status |-> ZMAP_SHARD_DONE, op |-> "next"]
                /\ pc'[k] = "idle"
                /\ sh' = sh]_vars
    /\ [][\A k \in Inst :
            (Constructed(k) /\ sh[k].current = ZMAP_SHARD_DONE) =>
                /\ sh'[k].current = ZMAP_SHARD_DONE
                /\ sh'[k].iterations = sh[k].iterations]_vars
    /\ [](\A k \in Inst : \A i, j \in 1..Len(gh[k].log) :
            (i < j /\ gh[k].log[i].status = ZMAP_SHARD_DONE) =>
                /\ gh[k].log[j].status = ZMAP_SHARD_DONE
                /\ gh[k].log[j].ip = 0
                /\ gh[k].log[j].port = 0)

\* A shard that had returned an OK target and then DONE was called again
\* and returned DONE.
C17_Witness ==
    /\ pc[0] = "idle"
    /\ gh[0].extra >= 1
    /\ ret[0] = [ip |-> 0, port |-> 0, status |-> ZMAP_SHARD_DONE, op |-> "next"]
    /\ Len(gh[0].log) >= 4
    /\ gh[0].log[2].status = ZMAP_SHARD_OK
    /\ gh[0].log[Len(gh[0].log) - 1].status = ZMAP_SHARD_DONE

-----------------------------------------------------------------------------
(* C18 *)

\* What one call of shard_get_next_target on shard s (not DONE) comes to:
\* the iterations of its loop up to the one that returns.
RECURSIVE CallResult(_, _, _)
CallResult(s, e, n) ==
    LET r == loop_iteration(s, e)
    IN  IF r.returns \/ n <= 0 THEN r ELSE CallResult(r.shard, e, n - 1)

\* The shard as shard_init leaves it, shard_roll_to_valid included.
ShardAfterInit(a, c, e) ==
    LET s == shard_init_fields(ShardMem(0), a, c)
    IN  IF roll_is_valid(s, e) THEN s ELSE CallResult(s, e, c.prime).shard

\* What the advances of a shard that runs alone return, up to and including
\* the first DONE.
RECURSIVE SoloFrom(_, _, _)
SoloFrom(s, e, n) ==
    IF s.current = ZMAP_SHARD_DONE \/ n <= 0
    THEN <<Returned([ip |-> 0, port |-> 0, status |-> ZMAP_SHARD_DONE], "next")>>
    ELSE LET r == CallResult(s, e, s.modulus)
         IN  IF r.target.status = ZMAP_SHARD_DONE
             THEN <<Returned(r.target, "next")>>
             ELSE <<Returned(r.target, "next")>> \o SoloFrom(r.shard, e, n - 1)

\* What a shard built by shard_init(a, c) returns when it runs alone: the
\* read of its current target, then its advances.
SoloLog(a, c, e) ==
    <<Returned(shard_get_cur_target(ShardAfterInit(a, c, e)), "cur")>>
        \o SoloFrom(ShardAfterInit(a, c, e), e, c.prime)

\* C18: in every interleaving of the workers' calls, a step of a call on
\* one shard leaves every field (current and iterations included) of every
\* other shard unchanged, and what each shard has returned so far is the
\* beginning of what it returns when it runs alone.
C18_WorkerIsolation ==
    /\ [][\A k \in Inst :
            (CurTargetAt(k) \/ NextTargetAt(k) \/ LoopStepAt(k)) =>
                \A j \in Inst \ {k} : sh'[j] = sh[j] /\ gh'[j].log = gh[j].log]_vars
    /\ [](\A k \in Inst :
            Constructed(k) =>
                /\ Len(gh[k].log) <= Len(SoloLog(args[k], cycle, env))
                /\ gh[k].log = SubSeq(SoloLog(args[k], cycle, env), 1, Len(gh[k].log)))

\* Two workers are inside shard_get_next_target at the same time, each
\* after an advance of its own that returned OK.
C18_Witness ==
    /\ Cardinality(Inst) >= 2
    /\ pc[0] = "loop" /\ caller[0] = "driver"
    /\ pc[1] = "loop" /\ caller[1] = "driver"
    /\ ret[0].op = "next" /\ ret[0].status = ZMAP_SHARD_OK
    /\ ret[1].op = "next" /\ ret[1].status = ZMAP_SHARD_OK

-----------------------------------------------------------------------------
(* C19 *)

\* The arguments of instance k without a quota.
WithoutQuota(k) == [args[k] EXCEPT !.max_total_targets = 0]

\* C19: shard_get_next_target does not depend on max_targets: an iteration
\* of its loop does the same whatever max_targets holds, and what a shard
\* with a quota returns is the beginning of what the same shard returns
\* without one, so it returns OK targets past its quota and DONE only at the
\* end of its arc.
C19_QuotaNotEnforced ==
    \A k \in Inst :
        Constructed(k) =>
            /\ Len(gh[k].log) <= Len(SoloLog(WithoutQuota(k), cycle, env))
            /\ gh[k].log = SubSeq(SoloLog(WithoutQuota(k), cycle, env),
                                  1, Len(gh[k].log))
            /\ pc[k] = "loop" =>
                 \A m \in 0..MaxQuota :
                    LET r == loop_iteration(sh[k], env)
                        q == loop_iteration([sh[k] EXCEPT !.max_targets = m], env)
                    IN  /\ q.returns = r.returns
                        /\ q.target = r.target
                        /\ q.shard = [r.shard EXCEPT !.max_targets = m]

\* A shard with a quota has returned an OK target with iterations already
\* above max_targets, and later DONE at the end of its arc.
C19_Witness ==
    \E k \in Inst :
        /\ args[k].max_total_targets > 0
        /\ gh[k].doneret
        /\ sh[k].max_targets >= 1
        /\ sh[k].iterations > sh[k].max_targets + 1
        /\ gh[k].log[Len(gh[k].log) - 1].status = ZMAP_SHARD_OK

-----------------------------------------------------------------------------
(* C20 *)

\* Every target an advance returns with status OK has a cursor value below
\* max_target_index.
AdvancesBelowRawBound ==
    \A k \in Inst :
        (pc[k] = "idle" /\ ret[k].op = "next" /\ ret[k].status = ZMAP_SHARD_OK)
        => sh[k].current < env.max_target_index

\* C20 as stated: a cursor value that shard_roll_to_valid accepts is one
\* shard_get_next_target would accept as a candidate, so whenever shard_init
\* or shard_get_next_target has returned and the shard is not DONE (its
\* current target is reported OK) the cursor is below max_target_index.
C20_SameRuleAsStated ==
    \A k \in Inst :
        (pc[k] \in {"ready", "idle"} /\ sh[k].current # ZMAP_SHARD_DONE)
        => sh[k].current < env.max_target_index

====
